---- MODULE Spec2Model ----
(***************************************************************************)
(* The Ansible front-end scripts: main and the role-selection menus.       *)
(*                                                                         *)
(*   arrow_remote    src/files/init-scripts/deploy_ansible_remote-2.py     *)
(*   arrow_local     src/files/init-scripts/install_ansible.py             *)
(*   numbered_remote src/deploy_ansible_remote.py                          *)
(*   numbered_local  src/install_ansible.py                                *)
(*                                                                         *)
(* One step of the model is one step of main or, inside display_menu, one  *)
(* iteration of the menu loop, from one blocking read of the terminal to   *)
(* the next.  Indices are 0-based as in                                    *)
(* the Python source; sequences are 1-based, so role i is                  *)
(* AVAILABLE_ROLES[i + 1].                                                 *)
(***************************************************************************)
EXTENDS Integers, Sequences, FiniteSets, TLC

VARIABLES
    script,               \* which of the four scripts is running
    os_name,              \* os.name: "posix" or "nt"
    pc,                   \* display_menu: "start" (not yet called), "menu",
                          \*               "confirm", "returned", "exited"
    selected_indices,     \* arrow-key menus: set of selected role indices
    current_index,        \* arrow-key menus: cursor
    selected_role_names,  \* numbered menus: working list; every menu: the returned list
    stdin,                \* bytes of a key press already delivered but not yet read
    screen,               \* rows printed by the latest rendering of the menu
    tty_mode,             \* terminal mode: "cooked", "raw", "cbreak"
    old_settings,         \* terminal attributes saved by termios.tcgetattr
    logged,               \* log lines emitted during the latest step
    exit_code,            \* "none", or the status passed to sys.exit
    last,                 \* history: branch taken by the latest step
    prev_selected,        \* history: selected set before the latest step
    toggleCount,          \* history: Toggle events (numbered menus: entries of
                          \*          its number) per role entry, counted while no
                          \*          meta-selection has been toggled or entered
    special_history,      \* history: latest effect of a Toggle per meta-selection:
                          \*          "never", "select", "deselect", or "reselect"
                          \*          for a select that follows a select
    quit_input,           \* history: the latest input was the Quit input 'q'
    phase,                \* main: "ansible", "collections", "server_details",
                          \*       "menu", "playbook", "done", "exit"
    inventory_written,    \* main: create_inventory_file has written the inventory
    playbook_runs,        \* main: calls of run_command(ansible_command)
    ansible_command,      \* main: the argv handed to run_command, <<>> before
    first_key,            \* history: key press whose first byte the latest
                          \*          iteration read first, "none" if it began
                          \*          with bytes left over from an earlier one
    keys_read,            \* history: key presses the latest iteration waited for
    on_path,              \* history: the programs shutil.which could find when
                          \*          the latest step asked, {} if it did not ask
    commands_run,         \* history: the run_command calls of the latest step,
                          \*          each with what became of the command
    typed,                \* the lines the user types at the prompts of
                          \* prompt_for_server_details or, in generate.py,
                          \* of prompt_for_variant; those not yet read
    server_details,       \* main: what prompt_for_server_details returned
    inventory_content,    \* the text written to the inventory file, <<>> before
    selection,            \* generate.py: what prompt_for_variant returned
    invocation,           \* generate.py: vars file and output path main chose
    temp_vars,            \* generate.py: text of the temporary vars file,
                          \*              "absent" while there is no such file
    generated             \* generate.py, history: what became of the
                          \*              ansible-playbook run, "not-run" before

\* What main keeps outside display_menu.
\* What only generate.py uses.
generateVars == <<selection, invocation, temp_vars, generated>>

mainVars == <<phase, inventory_written, playbook_runs, ansible_command,
              on_path, commands_run, typed, server_details, inventory_content,
              generateVars>>

vars == <<script, os_name, pc, selected_indices, current_index,
          selected_role_names, stdin, screen, tty_mode, old_settings, logged,
          exit_code, last, prev_selected, toggleCount, special_history,
          quit_input, phase, inventory_written, playbook_runs, ansible_command,
          first_key, keys_read, on_path, commands_run, typed, server_details,
          inventory_content, selection, invocation, temp_vars, generated>>

(***************************************************************************)
(* Bounds                                                                  *)
(***************************************************************************)
\* Lines typed at the port prompt before the user gives up trying.
MaxTries == 2

\* Size of the role catalog that is explored (the literal has 13 entries).
NumRoles == 3
\* Cap on the number of Toggle events (numbered menus: entries of its
\* number) counted per role entry.
MaxToggles == 2
\* Longest line typed at a prompt of the numbered menus.
MaxLine == 3

(***************************************************************************)
(* Role catalog                                                            *)
(***************************************************************************)
ROLE_LITERAL ==
    << "os-detection", "prerequisites", "base-installs", "docker-setup",
       "shell-customize", "nvim-setup", "dev-envs", "security-harden",
       "fonts", "terminals", "gui-installs", "nix-gui-installs", "cloud-init" >>

\* The catalog keeps its shape: ordinary roles first, "cloud-init" last.
AVAILABLE_ROLES == SubSeq(ROLE_LITERAL, 1, NumRoles - 1) \o <<"cloud-init">>

NotCloudInit(r) == r # "cloud-init"

ALL_ROLES_SELECTION == SelectSeq(AVAILABLE_ROLES, NotCloudInit)

FULL_ROLES_SELECTION == AVAILABLE_ROLES

num_options == Len(AVAILABLE_ROLES)

special_options_order == <<"all", "full">>

special_options(k) ==
    IF k = "all" THEN ALL_ROLES_SELECTION ELSE FULL_ROLES_SELECTION

total_options == num_options + Len(special_options_order)

RoleIdx == 0 .. (num_options - 1)

Range(s) == { s[i] : i \in 1 .. Len(s) }

\* AVAILABLE_ROLES.index(r); -1 stands for the ValueError of an absent role.
Index(r) ==
    IF \E i \in 1 .. Len(AVAILABLE_ROLES) : AVAILABLE_ROLES[i] = r
    THEN (CHOOSE i \in 1 .. Len(AVAILABLE_ROLES) :
             /\ AVAILABLE_ROLES[i] = r
             /\ \A j \in 1 .. (i - 1) : AVAILABLE_ROLES[j] # r) - 1
    ELSE -1

IsArrow == script \in {"arrow_remote", "arrow_local"}

IsNumbered == script \in {"numbered_remote", "numbered_local"}

(***************************************************************************)
(* Loops of the arrow-key display_menu over a meta-selection's role list   *)
(***************************************************************************)
\* print_menu and the result builder: an absent role makes the row unchecked.
RECURSIVE is_selected(_, _)
is_selected(roles, sel) ==
    IF roles = <<>> THEN TRUE
    ELSE IF Index(Head(roles)) = -1 THEN FALSE
    ELSE IF Index(Head(roles)) \notin sel THEN FALSE
    ELSE is_selected(Tail(roles), sel)

\* The SPACE handler: an absent role is skipped (except ValueError: pass).
RECURSIVE all_selected_loop(_, _)
all_selected_loop(roles, sel) ==
    IF roles = <<>> THEN TRUE
    ELSE IF Index(Head(roles)) = -1 THEN all_selected_loop(Tail(roles), sel)
    ELSE IF Index(Head(roles)) \notin sel THEN FALSE
    ELSE all_selected_loop(Tail(roles), sel)

all_selected_sticky(k, sel) == special_history[k] \in {"select", "reselect"}

all_selected(k, sel) == all_selected_loop(special_options(k), sel)

RECURSIVE deselect_roles(_, _)
deselect_roles(roles, sel) ==
    IF roles = <<>> THEN sel
    ELSE IF Index(Head(roles)) = -1 THEN deselect_roles(Tail(roles), sel)
    ELSE deselect_roles(Tail(roles), sel \ {Index(Head(roles))})

RECURSIVE select_roles(_, _)
select_roles(roles, sel) ==
    IF roles = <<>> THEN sel
    ELSE IF Index(Head(roles)) = -1 THEN select_roles(Tail(roles), sel)
    ELSE select_roles(Tail(roles), sel \cup {Index(Head(roles))})

toggle_role_add_only(sel, i) == sel \cup {i}

toggle_role(sel, i) == IF i \in sel THEN sel \ {i} ELSE sel \cup {i}

toggle_special_replace(k, sel) ==
    IF all_selected(k, sel)
    THEN deselect_roles(special_options(k), sel)
    ELSE select_roles(special_options(k), {})

toggle_special_clear(k, sel) ==
    IF all_selected(k, sel)
    THEN {}
    ELSE select_roles(special_options(k), sel)

toggle_special(k, sel) ==
    IF all_selected(k, sel)
    THEN deselect_roles(special_options(k), sel)
    ELSE select_roles(special_options(k), sel)

\* The Enter handler's test: "not selected_indices and not any(all(...))".
RECURSIVE all_in(_, _)
all_in(roles, sel) ==
    IF roles = <<>> THEN TRUE
    ELSE IF Index(Head(roles)) \notin sel THEN FALSE
    ELSE all_in(Tail(roles), sel)

any_special_full(sel) ==
    \E i \in 1 .. Len(special_options_order) :
        /\ special_options(special_options_order[i]) # <<>>
        /\ all_in(special_options(special_options_order[i]), sel)

enter_rejected_never(sel) == FALSE

enter_rejected(sel) == sel = {} /\ ~any_special_full(sel)

move_up_clamped(i) == IF i = 0 THEN 0 ELSE i - 1

move_up(i) == (i - 1) % total_options

move_down_posix_clamped(i) ==
    IF os_name = "posix" /\ i = total_options - 1 THEN i ELSE (i + 1) % total_options

move_down(i) == (i + 1) % total_options

(***************************************************************************)
(* Rendering                                                               *)
(***************************************************************************)
Row(cur, chk, lbl) == [cursor |-> cur, checked |-> chk, label |-> lbl]

print_menu_stored_flag(sel, cur) ==
    [ i \in 1 .. total_options |->
        IF i - 1 < num_options
        THEN Row(i - 1 = cur, (i - 1) \in sel, AVAILABLE_ROLES[i])
        ELSE Row(i - 1 = cur,
                 special_history[special_options_order[i - num_options]]
                     \in {"select", "reselect"},
                 special_options_order[i - num_options]) ]

print_menu(sel, cur) ==
    [ i \in 1 .. total_options |->
        IF i - 1 < num_options
        THEN Row(i - 1 = cur, (i - 1) \in sel, AVAILABLE_ROLES[i])
        ELSE Row(i - 1 = cur,
                 is_selected(special_options(special_options_order[i - num_options]), sel),
                 special_options_order[i - num_options]) ]

(***************************************************************************)
(* Building the returned list of the arrow-key display_menu                *)
(***************************************************************************)
\* sorted(list(selected_indices)), smallest index first.
RECURSIVE sorted(_)
sorted(s) ==
    IF s = {} THEN <<>>
    ELSE LET m == CHOOSE x \in s : \A y \in s : x <= y
         IN <<m>> \o sorted(s \ {m})

RECURSIVE names_of(_)
names_of(idxs) ==
    IF idxs = <<>> THEN <<>>
    ELSE IF Head(idxs) < num_options
         THEN <<AVAILABLE_ROLES[Head(idxs) + 1]>> \o names_of(Tail(idxs))
         ELSE names_of(Tail(idxs))

RECURSIVE append_missing(_, _)
append_missing(names, roles) ==
    IF roles = <<>> THEN names
    ELSE IF Head(roles) \in Range(names)
         THEN append_missing(names, Tail(roles))
         ELSE append_missing(Append(names, Head(roles)), Tail(roles))

\* The loop over special_options.items() stops at the first full meta-selection.
RECURSIVE add_special(_, _, _)
add_special(names, keys, sel) ==
    IF keys = <<>> THEN names
    ELSE IF is_selected(special_options(Head(keys)), sel)
         THEN append_missing(names, special_options(Head(keys)))
         ELSE add_special(names, Tail(keys), sel)

RECURSIVE reversed(_)
reversed(s) == IF s = <<>> THEN <<>> ELSE Append(reversed(Tail(s)), Head(s))

build_result_unsorted(sel) ==
    add_special(reversed(names_of(sorted(sel))), special_options_order, sel)

build_result_specials_only(sel) ==
    add_special(<<>>, special_options_order, sel)

build_result(sel) ==
    add_special(names_of(sorted(sel)), special_options_order, sel)

(***************************************************************************)
(* Terminal input                                                          *)
(***************************************************************************)
Keys == {"Up", "Down", "Enter", "CtrlJ", "Space", "q", "A", "B"}

\* Bytes a key press delivers: to a POSIX terminal in raw mode, where the
\* Enter key is a carriage return, and to msvcrt.getch on Windows.
KeyBytes(k) ==
    IF os_name = "posix"
    THEN CASE k = "Up"    -> <<"ESC", "[", "A">>
           [] k = "Down"  -> <<"ESC", "[", "B">>
           [] k = "Enter" -> <<"CR">>
           [] k = "CtrlJ" -> <<"LF">>
           [] k = "Space" -> <<"SP">>
           [] OTHER       -> <<k>>
    ELSE CASE k = "Up"    -> <<"E0", "H">>
           [] k = "Down"  -> <<"E0", "P">>
           [] k = "Enter" -> <<"CR">>
           [] k = "CtrlJ" -> <<"LF">>
           [] k = "Space" -> <<"SP">>
           [] OTHER       -> <<k>>

RECURSIVE Flatten(_)
Flatten(ks) == IF ks = <<>> THEN <<>> ELSE KeyBytes(Head(ks)) \o Flatten(Tail(ks))

\* Key presses one loop iteration may have to wait for.
Draws == {<<>>} \cup { <<k>> : k \in Keys } \cup { <<k1, k2>> : k1 \in Keys, k2 \in Keys }

PrefixByte == IF os_name = "posix" THEN "ESC" ELSE "E0"
EnterByte  == IF os_name = "posix" THEN "LF" ELSE "CR"
UpByte     == IF os_name = "posix" THEN "A" ELSE "H"
DownByte   == IF os_name = "posix" THEN "B" ELSE "P"

\* Bytes one iteration reads: read(1), and after ESC read(2) and read(1);
\* getch(), and after the 0xE0 prefix one more getch().
Need(buf) ==
    IF buf[1] = PrefixByte THEN (IF os_name = "posix" THEN 4 ELSE 2) ELSE 1

Blocked(buf) == IF buf = <<>> THEN TRUE ELSE Len(buf) < Need(buf)

Buf(ks) == stdin \o Flatten(ks)

\* The iteration reads the pending bytes and waits for exactly as many
\* further key presses as its reads require.
CanRead(ks) ==
    /\ ~Blocked(Buf(ks))
    /\ ks # <<>> => Blocked(stdin \o Flatten(SubSeq(ks, 1, Len(ks) - 1)))

Rest(buf) == SubSeq(buf, Need(buf) + 1, Len(buf))

\* History of the read: the key press the iteration began with, and how many
\* key presses it had to wait for.
Pressed(ks) ==
    /\ first_key' = (IF stdin = <<>> THEN ks[1] ELSE "none")
    /\ keys_read' = Len(ks)

(***************************************************************************)
(* Initial state: main starts                                              *)
(***************************************************************************)
Scripts == {"arrow_remote", "arrow_local", "numbered_remote", "numbered_local"}

Sel ==
    IF IsArrow THEN selected_indices
    ELSE { Index(r) : r \in Range(selected_role_names) }

NoToggles == [i \in RoleIdx |-> 0]

OnlyRolesToggled == \A k \in Range(special_options_order) : special_history[k] = "never"

\* main's locals server_ip, ssh_user, ssh_port, ssh_key_option, ssh_key_path
\* before prompt_for_server_details has returned (0 is no port).
NoDetails ==
    [server_ip |-> <<>>, ssh_user |-> <<>>, ssh_port |-> 0,
     ssh_key_option |-> <<>>, ssh_key_path |-> <<>>]

\* The start of main of one of scripts, with the lines the user is going to type at the
\* prompts of prompt_for_server_details (generate.py: of prompt_for_variant)
\* taken from answers; the local scripts do not ask.
Start(scripts, answers) ==
    /\ script \in scripts
    /\ os_name \in {"posix", "nt"}
    /\ pc = "start"
    /\ selected_indices = {}
    /\ current_index = 0
    /\ selected_role_names = <<>>
    /\ stdin = <<>>
    /\ screen = <<>>
    /\ tty_mode = "cooked"
    /\ old_settings = "none"
    /\ logged = <<>>
    /\ exit_code = "none"
    /\ last = "none"
    /\ prev_selected = {}
    /\ toggleCount = NoToggles
    /\ special_history = [k \in Range(special_options_order) |-> "never"]
    /\ quit_input = FALSE
    /\ phase = "ansible"
    /\ inventory_written = FALSE
    /\ playbook_runs = 0
    /\ ansible_command = <<>>
    /\ first_key = "none"
    /\ keys_read = 0
    /\ on_path = {}
    /\ commands_run = <<>>
    /\ typed \in (IF script \in {"arrow_remote", "numbered_remote", "generate"}
                  THEN answers ELSE {<<>>})
    /\ server_details = NoDetails
    /\ inventory_content = <<>>
    /\ selection = <<>>
    /\ invocation = <<>>
    /\ temp_vars = "absent"
    /\ generated = "not-run"

(***************************************************************************)
(* Arrow-key display_menu                                                  *)
(***************************************************************************)
\* Up to the first blocking read: locals, print_menu, tcgetattr, setraw.
EnterArrowMenu ==
    /\ phase = "menu"
    /\ pc = "start"
    /\ IsArrow
    /\ selected_indices' = {}
    /\ current_index' = 0
    /\ screen' = print_menu({}, 0)
    /\ IF os_name = "posix"
       THEN old_settings' = tty_mode /\ tty_mode' = "raw"
       ELSE UNCHANGED <<old_settings, tty_mode>>
    /\ pc' = "menu"
    /\ last' = "start"
    /\ prev_selected' = {}
    /\ logged' = <<>>
    /\ quit_input' = FALSE
    /\ first_key' = "none"
    /\ keys_read' = 0
    /\ UNCHANGED <<script, os_name, selected_role_names, stdin, exit_code,
                   toggleCount, special_history>>
    /\ UNCHANGED <<phase, inventory_written, playbook_runs, ansible_command,
                   typed, server_details, inventory_content, generateVars>>
    /\ on_path' = {}
    /\ commands_run' = <<>>

Continue_break(sel, cur) ==
    /\ screen' = print_menu(sel, cur)
    /\ tty_mode' = IF os_name = "posix" THEN "raw" ELSE tty_mode
    /\ pc' = "returned"
    /\ UNCHANGED <<script, os_name, selected_role_names, old_settings, exit_code>>
    /\ UNCHANGED mainVars

\* The loop goes round: setcbreak, print_menu, setraw, and the next read blocks.
Continue(sel, cur) ==
    /\ screen' = print_menu(sel, cur)
    /\ tty_mode' = IF os_name = "posix" THEN "raw" ELSE tty_mode
    /\ pc' = "menu"
    /\ UNCHANGED <<script, os_name, selected_role_names, old_settings, exit_code>>
    /\ UNCHANGED mainVars

Leave_unrestored == tty_mode' = tty_mode

\* The loop is left: the finally clause restores the saved attributes.
Leave == tty_mode' = IF os_name = "posix" THEN old_settings ELSE tty_mode

Navigate ==
    /\ pc = "menu"
    /\ IsArrow
    /\ \E ks \in Draws :
        /\ CanRead(ks)
        /\ Pressed(ks)
        /\ Buf(ks)[1] = PrefixByte
        /\ LET arrow_key == Buf(ks)[Need(Buf(ks))]
               ni == IF arrow_key = UpByte THEN move_up(current_index)
                     ELSE IF arrow_key = DownByte THEN move_down(current_index)
                     ELSE current_index
           IN /\ current_index' = ni
              /\ last' = IF arrow_key = UpByte THEN "up"
                         ELSE IF arrow_key = DownByte THEN "down"
                         ELSE "esc_noop"
              /\ Continue(selected_indices, ni)
        /\ stdin' = Rest(Buf(ks))
    /\ prev_selected' = selected_indices
    /\ logged' = <<>>
    /\ quit_input' = FALSE
    /\ UNCHANGED <<selected_indices, toggleCount, special_history>>

EnterRejected ==
    /\ pc = "menu"
    /\ IsArrow
    /\ \E ks \in Draws :
        /\ CanRead(ks)
        /\ Pressed(ks)
        /\ Buf(ks)[1] = EnterByte
        /\ stdin' = Rest(Buf(ks))
    /\ enter_rejected(selected_indices)
    /\ logged' = <<"WARNING: Please select at least one role or 'all'/'full'.">>
    /\ Continue(selected_indices, current_index)
    /\ last' = "reject"
    /\ prev_selected' = selected_indices
    /\ quit_input' = FALSE
    /\ UNCHANGED <<selected_indices, current_index, toggleCount, special_history>>

EnterConfirmed ==
    /\ pc = "menu"
    /\ IsArrow
    /\ \E ks \in Draws :
        /\ CanRead(ks)
        /\ Pressed(ks)
        /\ Buf(ks)[1] = EnterByte
        /\ stdin' = Rest(Buf(ks))
    /\ ~enter_rejected(selected_indices)
    /\ Leave
    /\ selected_role_names' = build_result(selected_indices)
    /\ pc' = "returned"
    /\ last' = "confirm"
    /\ prev_selected' = selected_indices
    /\ logged' = <<>>
    /\ quit_input' = FALSE
    /\ UNCHANGED <<script, os_name, selected_indices, current_index, screen,
                   old_settings, exit_code, toggleCount, special_history>>
    /\ UNCHANGED mainVars

\* Only the remote script has the 'q' branch.
QuitKey ==
    /\ pc = "menu"
    /\ script = "arrow_remote"
    /\ \E ks \in Draws :
        /\ CanRead(ks)
        /\ Pressed(ks)
        /\ Buf(ks)[1] = "q"
        /\ stdin' = Rest(Buf(ks))
    /\ logged' = <<"INFO: Exiting without changes.">>
    /\ Leave
    /\ exit_code' = 0
    /\ pc' = "exited"
    /\ last' = "quit"
    /\ prev_selected' = selected_indices
    /\ quit_input' = TRUE
    /\ UNCHANGED <<script, os_name, selected_indices, current_index,
                   selected_role_names, screen, old_settings, toggleCount,
                   special_history>>
    /\ UNCHANGED mainVars

ToggleRole ==
    /\ pc = "menu"
    /\ IsArrow
    /\ \E ks \in Draws :
        /\ CanRead(ks)
        /\ Pressed(ks)
        /\ Buf(ks)[1] = "SP"
        /\ stdin' = Rest(Buf(ks))
    /\ current_index < num_options
    /\ OnlyRolesToggled => toggleCount[current_index] < MaxToggles
    /\ selected_indices' = toggle_role(selected_indices, current_index)
    /\ Continue(selected_indices', current_index)
    /\ toggleCount' = IF OnlyRolesToggled
                      THEN [toggleCount EXCEPT ![current_index] = @ + 1]
                      ELSE toggleCount
    /\ last' = "toggle_role"
    /\ prev_selected' = selected_indices
    /\ logged' = <<>>
    /\ quit_input' = FALSE
    /\ UNCHANGED <<current_index, special_history>>

ToggleSpecial ==
    /\ pc = "menu"
    /\ IsArrow
    /\ \E ks \in Draws :
        /\ CanRead(ks)
        /\ Pressed(ks)
        /\ Buf(ks)[1] = "SP"
        /\ stdin' = Rest(Buf(ks))
    /\ current_index >= num_options
    /\ LET special_key == special_options_order[current_index - num_options + 1]
       IN /\ selected_indices' = toggle_special(special_key, selected_indices)
          /\ special_history' =
                [special_history EXCEPT ![special_key] =
                    IF all_selected(special_key, selected_indices) THEN "deselect"
                    ELSE IF @ \in {"select", "reselect"} THEN "reselect"
                    ELSE "select"]
          /\ last' = IF all_selected(special_key, selected_indices)
                     THEN "special_deselect" ELSE "special_select"
    /\ Continue(selected_indices', current_index)
    /\ prev_selected' = selected_indices
    /\ logged' = <<>>
    /\ quit_input' = FALSE
    /\ toggleCount' = NoToggles
    /\ UNCHANGED <<current_index>>

\* A byte no branch tests for: the loop just goes round.
HandledBytes ==
    {PrefixByte, EnterByte, "SP"} \cup (IF script = "arrow_remote" THEN {"q"} ELSE {})

OtherKey ==
    /\ pc = "menu"
    /\ IsArrow
    /\ \E ks \in Draws :
        /\ CanRead(ks)
        /\ Pressed(ks)
        /\ Buf(ks)[1] \notin HandledBytes
        /\ stdin' = Rest(Buf(ks))
        /\ quit_input' = (Buf(ks)[1] = "q")
    /\ Continue(selected_indices, current_index)
    /\ last' = "ignored"
    /\ prev_selected' = selected_indices
    /\ logged' = <<>>
    /\ UNCHANGED <<selected_indices, current_index, toggleCount, special_history>>

\* POSIX: a read raises inside the try block (sys.stdin.read fails to decode
\* a byte, or the terminal is gone).  The finally clause runs, the exception
\* leaves main, and the interpreter ends with status 1.
ReadError ==
    /\ pc = "menu"
    /\ IsArrow
    /\ os_name = "posix"
    /\ Leave
    /\ pc' = "exited"
    /\ exit_code' = 1
    /\ last' = "exception"
    /\ prev_selected' = selected_indices
    /\ logged' = <<>>
    /\ quit_input' = FALSE
    /\ first_key' = "none"
    /\ keys_read' = 0
    /\ UNCHANGED <<script, os_name, selected_indices, current_index,
                   selected_role_names, stdin, screen, old_settings, toggleCount,
                   special_history>>
    /\ UNCHANGED mainVars

(***************************************************************************)
(* Numbered display_menu: lines typed at the prompts                       *)
(***************************************************************************)
DigitChars == <<"0", "1", "2", "3", "4", "5", "6", "7", "8", "9">>

\* Characters a typed line is made of: the digits of the listed rows and the
\* letters, separator and blank the prompts mention.
LineChars ==
    {"q", "Q", "a", "f", "y", ",", " "} \cup { DigitChars[n + 1] : n \in 1 .. (NumRoles + 1) }

Lines == UNION { [1 .. n -> LineChars] : n \in 0 .. MaxLine }

\* str.strip() for the blank.
RECURSIVE lstrip(_)
lstrip(s) == IF s # <<>> /\ Head(s) = " " THEN lstrip(Tail(s)) ELSE s

RECURSIVE rstrip(_)
rstrip(s) ==
    IF s # <<>> /\ s[Len(s)] = " " THEN rstrip(SubSeq(s, 1, Len(s) - 1)) ELSE s

strip(s) == rstrip(lstrip(s))

lower_char(c) ==
    CASE c = "Q" -> "q"
      [] c = "A" -> "a"
      [] c = "F" -> "f"
      [] c = "Y" -> "y"
      [] c = "D" -> "d"
      [] OTHER   -> c

lower(s) == [i \in 1 .. Len(s) |-> lower_char(s[i])]

\* str.split(','): the empty string gives one empty part.
RECURSIVE split_from(_, _)
split_from(s, acc) ==
    IF s = <<>> THEN <<acc>>
    ELSE IF Head(s) = "," THEN <<acc>> \o split_from(Tail(s), <<>>)
    ELSE split_from(Tail(s), Append(acc, Head(s)))

split(s) == split_from(s, <<>>)

isdigit(part) == part # <<>> /\ \A i \in 1 .. Len(part) : part[i] \in Range(DigitChars)

DigitVal(c) == (CHOOSE n \in 1 .. Len(DigitChars) : DigitChars[n] = c) - 1

RECURSIVE int(_)
int(part) ==
    IF part = <<>> THEN 0
    ELSE 10 * int(SubSeq(part, 1, Len(part) - 1)) + DigitVal(part[Len(part)])

\* The loop over the comma-separated parts that fills new_selections.
RECURSIVE new_selections(_)
new_selections(parts) ==
    IF parts = <<>> THEN <<>>
    ELSE LET part == strip(Head(parts))
             rest == new_selections(Tail(parts))
         IN IF isdigit(part)
            THEN (IF 0 <= int(part) - 1 /\ int(part) - 1 < Len(AVAILABLE_ROLES)
                  THEN <<AVAILABLE_ROLES[int(part)]>> \o rest
                  ELSE rest)
            ELSE IF part = <<"a">> THEN ALL_ROLES_SELECTION \o rest
            ELSE IF part = <<"f">> THEN FULL_ROLES_SELECTION \o rest
            ELSE rest

\* list(set(xs)): the elements once each, in an order the hash seed decides.
list_of_set(S) ==
    { p \in [1 .. Cardinality(S) -> S] : \A i, j \in 1 .. Cardinality(S) : p[i] = p[j] => i = j }

\* The rows printed at the top of the loop: no cursor, and the rows of the
\* two meta-selections are printed with a literal "[ ]".
print_numbered(names) ==
    [ i \in 1 .. total_options |->
        IF i - 1 < num_options
        THEN Row(FALSE, AVAILABLE_ROLES[i] \in Range(names), AVAILABLE_ROLES[i])
        ELSE Row(FALSE, FALSE, special_options_order[i - num_options]) ]

\* The line consists of the letter q, in either case, between optional blanks.
TypedQuit(line) ==
    \E i \in 1 .. Len(line) :
        /\ line[i] \in {"q", "Q"}
        /\ \A j \in (1 .. Len(line)) \ {i} : line[j] = " "

(***************************************************************************)
(* Numbered display_menu                                                   *)
(***************************************************************************)
EnterNumberedMenu ==
    /\ phase = "menu"
    /\ pc = "start"
    /\ IsNumbered
    /\ selected_role_names' = <<>>
    /\ screen' = print_numbered(<<>>)
    /\ pc' = "menu"
    /\ last' = "start"
    /\ prev_selected' = {}
    /\ logged' = <<>>
    /\ quit_input' = FALSE
    /\ UNCHANGED <<script, os_name, selected_indices, current_index, stdin,
                   tty_mode, old_settings, exit_code, toggleCount, special_history,
                   first_key, keys_read>>
    /\ UNCHANGED <<phase, inventory_written, playbook_runs, ansible_command,
                   typed, server_details, inventory_content, generateVars>>
    /\ on_path' = {}
    /\ commands_run' = <<>>

NumberedFrame ==
    /\ UNCHANGED <<script, os_name, selected_indices, current_index, stdin,
                   tty_mode, old_settings, first_key, keys_read>>
    /\ UNCHANGED mainVars

\* History: a line with 'a' or 'f' selects that meta-selection.
entered_special(h, k) ==
    [h EXCEPT ![k] = IF @ \in {"select", "reselect"} THEN "reselect" ELSE "select"]

\* History: how many parts of the line are the number of role i.
RECURSIVE entries(_, _)
entries(parts, i) ==
    IF parts = <<>> THEN 0
    ELSE (IF isdigit(strip(Head(parts))) /\ int(strip(Head(parts))) - 1 = i
          THEN 1 ELSE 0) + entries(Tail(parts), i)

\* History: the meta-selections the parts of the line name.
specials_entered(parts) ==
    { k \in Range(special_options_order) :
        \E n \in 1 .. Len(parts) :
            strip(parts[n]) = (IF k = "all" THEN <<"a">> ELSE <<"f">>) }

\* What the loop makes of a typed line: user_input, and for a line read as a
\* list the roles its parts add.  Lines the loop treats alike are one input.
user_input(line) == lower(strip(line))

read_line(line) ==
    LET parts == split(user_input(line))
    IN [ user_input     |-> IF user_input(line) \in {<<"q">>, <<"a">>, <<"f">>}
                            THEN user_input(line) ELSE <<"list">>,
         new_selections |-> IF user_input(line) \in {<<"q">>, <<"a">>, <<"f">>}
                            THEN {} ELSE Range(new_selections(parts)),
         entries        |-> [i \in RoleIdx |->
                               IF user_input(line) \in {<<"q">>, <<"a">>, <<"f">>}
                               THEN 0 ELSE entries(parts, i)],
         specials       |-> IF user_input(line) \in {<<"q">>, <<"a">>, <<"f">>}
                            THEN {} ELSE specials_entered(parts),
         typed_quit     |-> TypedQuit(line) ]

MenuInputs == { read_line(line) : line \in Lines }

\* The answers at the confirmation prompt: 'y' or anything else.
ConfirmInputs == { user_input(line) = <<"y">> : line \in Lines }

NumberedQuit ==
    /\ pc = "menu"
    /\ IsNumbered
    /\ \E input \in MenuInputs :
        /\ input.user_input = <<"q">>
        /\ quit_input' = input.typed_quit
    /\ logged' = <<"INFO: Exiting without changes.">>
    /\ exit_code' = 0
    /\ pc' = "exited"
    /\ last' = "quit"
    /\ prev_selected' = Sel
    /\ UNCHANGED <<selected_role_names, screen, toggleCount, special_history>>
    /\ NumberedFrame

\* 'a' or 'f' alone replaces the list and goes on to the confirmation prompt.
NumberedShortcut ==
    /\ pc = "menu"
    /\ IsNumbered
    /\ \E input \in MenuInputs :
        /\ input.user_input \in {<<"a">>, <<"f">>}
        /\ quit_input' = input.typed_quit
        /\ selected_role_names' \in
              list_of_set(Range(IF input.user_input = <<"a">>
                                THEN ALL_ROLES_SELECTION ELSE FULL_ROLES_SELECTION))
        /\ last' = IF input.user_input = <<"a">> THEN "num_all" ELSE "num_full"
        /\ special_history' =
              entered_special(special_history,
                              IF input.user_input = <<"a">> THEN "all" ELSE "full")
    /\ toggleCount' = NoToggles
    /\ logged' = <<>>
    /\ pc' = "confirm"
    /\ prev_selected' = Sel
    /\ UNCHANGED <<screen, exit_code>>
    /\ NumberedFrame

\* Any other line is read as a comma-separated list and merged into the list.
NumberedList ==
    /\ pc = "menu"
    /\ IsNumbered
    /\ \E input \in MenuInputs :
        /\ input.user_input = <<"list">>
        /\ quit_input' = input.typed_quit
        /\ (OnlyRolesToggled /\ input.specials = {}) =>
              \A i \in RoleIdx : toggleCount[i] + input.entries[i] <= MaxToggles
        /\ selected_role_names' \in
              list_of_set(Range(selected_role_names) \cup input.new_selections)
        /\ special_history' =
              [k \in Range(special_options_order) |->
                  IF k \in input.specials THEN entered_special(special_history, k)[k]
                  ELSE special_history[k]]
        /\ toggleCount' =
              IF OnlyRolesToggled /\ input.specials = {}
              THEN [i \in RoleIdx |-> toggleCount[i] + input.entries[i]]
              ELSE NoToggles
    /\ IF selected_role_names' = <<>>
       THEN /\ logged' = <<"WARNING: Please select at least one role or 'a'/'f'.">>
            /\ screen' = print_numbered(selected_role_names')
            /\ pc' = "menu"
            /\ last' = "num_reject"
       ELSE /\ logged' = <<>>
            /\ screen' = screen
            /\ pc' = "confirm"
            /\ last' = "num_list"
    /\ prev_selected' = Sel
    /\ UNCHANGED <<exit_code>>
    /\ NumberedFrame

NumberedConfirmYes ==
    /\ pc = "confirm"
    /\ IsNumbered
    /\ TRUE \in ConfirmInputs
    /\ pc' = "returned"
    /\ last' = "confirm"
    /\ prev_selected' = Sel
    /\ logged' = <<>>
    /\ quit_input' = FALSE
    /\ UNCHANGED <<selected_role_names, screen, exit_code, toggleCount,
                   special_history>>
    /\ NumberedFrame

NumberedConfirmNo_resets ==
    /\ pc = "confirm"
    /\ IsNumbered
    /\ FALSE \in ConfirmInputs
    /\ selected_role_names' = <<>>
    /\ screen' = print_numbered(selected_role_names')
    /\ pc' = "menu"
    /\ last' = "confirm_no"
    /\ prev_selected' = Sel
    /\ logged' = <<>>
    /\ quit_input' = FALSE
    /\ UNCHANGED <<exit_code, toggleCount, special_history>>
    /\ NumberedFrame

NumberedConfirmNo ==
    /\ pc = "confirm"
    /\ IsNumbered
    /\ FALSE \in ConfirmInputs
    /\ screen' = print_numbered(selected_role_names)
    /\ pc' = "menu"
    /\ last' = "confirm_no"
    /\ prev_selected' = Sel
    /\ logged' = <<>>
    /\ quit_input' = FALSE
    /\ UNCHANGED <<selected_role_names, exit_code, toggleCount, special_history>>
    /\ NumberedFrame

(***************************************************************************)
(* main                                                                    *)
(***************************************************************************)
IsRemote == script \in {"arrow_remote", "numbered_remote"}

\* What display_menu keeps; main leaves it alone outside the call.
menuVars == <<script, os_name, pc, selected_indices, current_index,
              selected_role_names, stdin, screen, tty_mode, old_settings,
              prev_selected, toggleCount, special_history, quit_input,
              first_key, keys_read>>

\* sys.exit(1) in main or in a function main calls outside display_menu.
Fail(message) ==
    /\ logged' = <<message>>
    /\ exit_code' = 1
    /\ phase' = "exit"

\* What subprocess.run can make of a command: it returns with status 0, it
\* raises CalledProcessError (check=True), or it raises FileNotFoundError.
Results == {"returned-0", "returned-nonzero", "not-found"}

\* run_command is true only when the command was found and returned 0.
run_command_unless_missing(result) == result # "not-found"

run_command(result) == result = "returned-0"

\* The record of one run_command call.
Ran(command, result) == [command |-> command, result |-> result]

\* The programs main and install_ansible look for with shutil.which.
Programs == {"ansible-playbook", "apt-get", "dnf", "pacman", "brew"}

\* The if/elif chain of install_ansible, in its order.
package_managers == <<"apt-get", "dnf", "pacman", "brew">>

install_commands(manager) ==
    CASE manager = "apt-get" ->
            << <<"sudo", "apt-get", "update">>,
               <<"sudo", "apt-get", "install", "-y", "ansible">> >>
      [] manager = "dnf" ->
            << <<"sudo", "dnf", "install", "-y", "ansible">> >>
      [] manager = "pacman" ->
            << <<"sudo", "pacman", "-Sy", "--noconfirm", "ansible">> >>
      [] manager = "brew" ->
            << <<"brew", "install", "ansible">> >>

\* The branch the chain takes: the first manager shutil.which finds.
RECURSIVE first_found(_, _)
first_found_last(managers, present) ==
    IF managers = <<>> THEN "none"
    ELSE IF managers[Len(managers)] \in present THEN managers[Len(managers)]
    ELSE first_found(SubSeq(managers, 1, Len(managers) - 1), present)

first_found(managers, present) ==
    IF managers = <<>> THEN "none"
    ELSE IF Head(managers) \in present THEN Head(managers)
    ELSE first_found(Tail(managers), present)

\* Step 1: shutil.which("ansible-playbook"), else install_ansible(), which
\* runs the commands of the first package manager it finds without looking
\* at what run_command returns, and exits when it finds none.
CheckAnsible ==
    /\ phase = "ansible"
    /\ \E present \in SUBSET Programs :
        /\ on_path' = present
        /\ IF "ansible-playbook" \in present
           THEN /\ commands_run' = <<>>
                /\ logged' = <<"SUCCESS: Ansible is already installed.">>
                /\ phase' = "collections"
                /\ UNCHANGED exit_code
           ELSE LET manager == first_found(package_managers, present)
                IN IF manager = "none"
                   THEN /\ commands_run' = <<>>
                        /\ Fail("ERROR: Unsupported package manager.")
                   ELSE /\ \E results \in [DOMAIN install_commands(manager) -> Results] :
                             commands_run' =
                                [i \in DOMAIN install_commands(manager) |->
                                    Ran(install_commands(manager)[i], results[i])]
                        /\ logged' = <<"SUCCESS: Ansible installed successfully.">>
                        /\ phase' = "collections"
                        /\ UNCHANGED exit_code
    /\ last' = "main"
    /\ UNCHANGED <<inventory_written, playbook_runs, ansible_command, typed,
                   server_details, inventory_content>>
    /\ UNCHANGED menuVars
    /\ UNCHANGED generateVars

\* Step 2: the collections of requirements.yml, when the file exists; the
\* result of run_command is not looked at.
Collections ==
    /\ phase = "collections"
    /\ \E exists \in BOOLEAN :
        IF exists
        THEN /\ \E result \in Results :
                  commands_run' =
                     << Ran(<<"ansible-galaxy", "collection", "install", "-r",
                              "requirements.yml">>, result) >>
             /\ logged' = <<"SUCCESS: Ansible collections processed.">>
        ELSE /\ commands_run' = <<>>
             /\ logged' = <<"WARNING: requirements.yml not found.">>
    /\ on_path' = {}
    /\ phase' = IF IsRemote THEN "server_details" ELSE "menu"
    /\ last' = "main"
    /\ UNCHANGED <<exit_code, inventory_written, playbook_runs, ansible_command,
                   typed, server_details, inventory_content>>
    /\ UNCHANGED menuVars
    /\ UNCHANGED generateVars

(***************************************************************************)
(* prompt_for_server_details and create_inventory_file                     *)
(* A typed line and every other text is a sequence of characters; a fixed  *)
(* part of a format string is one piece.                                   *)
(***************************************************************************)
Letters == {"a", "b", "e", "h", "k", "m", "n", "s", "u", "x", "y", "Y"}

\* str.isalnum()
isalnum(text) ==
    text # <<>> /\ \A i \in DOMAIN text : text[i] \in Letters \cup Range(DigitChars)

\* str.replace(old, new) for a single character old and a text new.
RECURSIVE replace(_, _, _)
replace(text, old, new) ==
    IF text = <<>> THEN <<>>
    ELSE (IF Head(text) = old THEN new ELSE <<Head(text)>>)
            \o replace(Tail(text), old, new)

\* str.split('.')
RECURSIVE split_dots_from(_, _)
split_dots_from(text, acc) ==
    IF text = <<>> THEN <<acc>>
    ELSE IF Head(text) = "." THEN <<acc>> \o split_dots_from(Tail(text), <<>>)
    ELSE split_dots_from(Tail(text), Append(acc, Head(text)))

\* ipaddress.ip_address(text) does not raise: four decimal octets without a
\* leading zero. An IPv6 address needs a colon, which no typed line holds.
ip_address(text) ==
    LET octets == split_dots_from(text, <<>>)
    IN /\ Len(octets) = 4
       /\ \A i \in 1 .. 4 :
            /\ isdigit(octets[i])
            /\ Len(octets[i]) <= 3
            /\ (Len(octets[i]) > 1 => octets[i][1] # "0")
            /\ int(octets[i]) <= 255

\* int(text), or ValueError: an optional sign, then digits that may have
\* single underscores between them.
int_literal(text) ==
    /\ text # <<>>
    /\ \A i \in DOMAIN text : text[i] \in Range(DigitChars) \cup {"_"}
    /\ text[1] # "_" /\ text[Len(text)] # "_"
    /\ \A i \in 1 .. Len(text) - 1 : ~(text[i] = "_" /\ text[i + 1] = "_")

python_int(text) ==
    LET signed == text # <<>> /\ text[1] \in {"+", "-"}
        digits == IF signed THEN Tail(text) ELSE text
    IN IF ~int_literal(digits) THEN [ValueError |-> TRUE, value |-> 0]
       ELSE [ValueError |-> FALSE,
             value |-> (IF signed /\ text[1] = "-" THEN -1 ELSE 1)
                          * int(replace(digits, "_", <<>>))]

\* 1 <= ssh_port <= 65535
port_in_range_from_zero(ssh_port) == 0 <= ssh_port /\ ssh_port <= 65535

port_in_range(ssh_port) == 1 <= ssh_port /\ ssh_port <= 65535

\* os.path.exists: the files of the machine the script runs on.
ExistingFiles == { <<"k">> }

exists(path) == path \in ExistingFiles

\* What one prompt comes to: "answered" with a value, "exit" for
\* sys.exit(1), or "blocked" when input() has no line to read.
Asked(outcome, value, messages, rest) ==
    [outcome |-> outcome, value |-> value, logged |-> messages, rest |-> rest]

RECURSIVE ask_server_ip(_, _)
ask_server_ip(lines, messages) ==
    IF lines = <<>> THEN Asked("blocked", <<>>, messages, <<>>)
    ELSE LET server_ip == strip(Head(lines))
         IN IF server_ip = <<>>
            THEN ask_server_ip(Tail(lines),
                    Append(messages, "WARNING: Server IP/Hostname cannot be empty."))
            ELSE IF \/ ip_address(server_ip)
                    \/ isalnum(replace(replace(server_ip, "-", <<>>), ".", <<>>))
                    \/ " " \notin Range(server_ip)
            THEN Asked("answered", server_ip, messages, Tail(lines))
            ELSE ask_server_ip(Tail(lines),
                    Append(messages, "WARNING: Invalid IP address or hostname format."))

ask_ssh_user(lines, messages) ==
    IF lines = <<>> THEN Asked("blocked", <<>>, messages, <<>>)
    ELSE LET ssh_user == strip(Head(lines))
         IN IF ssh_user = <<>>
            THEN Asked("exit", <<>>,
                       Append(messages, "ERROR: SSH Username cannot be empty."),
                       Tail(lines))
            ELSE Asked("answered", ssh_user, messages, Tail(lines))

RECURSIVE ask_ssh_port(_, _)
ask_ssh_port(lines, messages) ==
    IF lines = <<>> THEN Asked("blocked", 0, messages, <<>>)
    ELSE LET ssh_port_input == strip(Head(lines))
             ssh_port == python_int(ssh_port_input)
         IN IF ssh_port_input = <<>>
            THEN Asked("answered", 22, messages, Tail(lines))
            ELSE IF ssh_port.ValueError
            THEN ask_ssh_port(Tail(lines),
                    Append(messages, "WARNING: Invalid port number. Please enter a number."))
            ELSE IF port_in_range(ssh_port.value)
            THEN Asked("answered", ssh_port.value, messages, Tail(lines))
            ELSE ask_ssh_port(Tail(lines),
                    Append(messages, "WARNING: Port must be between 1 and 65535."))

\* str.startswith('y')
startswith_y(text) == text # <<>> /\ text[1] = "y"

\* The value is the pair of ssh_key_option and ssh_key_path.
ask_ssh_key(lines, messages) ==
    IF lines = <<>> THEN Asked("blocked", <<>>, messages, <<>>)
    ELSE LET ssh_key_path == strip(Head(lines))
             not_found == Append(messages, "ERROR: SSH key file not found.")
         IN IF ssh_key_path = <<>>
            THEN Asked("answered", <<<<>>, <<>>>>, messages, Tail(lines))
            ELSE IF exists(ssh_key_path)
            THEN Asked("answered",
                       << <<"ansible_ssh_private_key_file=", "'">> \o ssh_key_path
                             \o <<"'">>,
                          ssh_key_path >>,
                       messages, Tail(lines))
            ELSE IF Tail(lines) = <<>>
            THEN Asked("blocked", <<>>, not_found, <<>>)
            ELSE IF ~startswith_y(lower(lines[2]))
            THEN Asked("exit", <<>>, not_found, Tail(Tail(lines)))
            ELSE Asked("answered", <<<<>>, <<>>>>, not_found, Tail(Tail(lines)))

prompt_for_server_details(lines) ==
    LET ip == ask_server_ip(lines, <<>>)
    IN IF ip.outcome # "answered" THEN ip
       ELSE LET user == ask_ssh_user(ip.rest, ip.logged)
            IN IF user.outcome # "answered" THEN user
               ELSE LET port == ask_ssh_port(user.rest, user.logged)
                    IN IF port.outcome # "answered" THEN port
                       ELSE LET key == ask_ssh_key(port.rest, port.logged)
                            IN IF key.outcome # "answered" THEN key
                               ELSE Asked("answered",
                                          [server_ip |-> ip.value,
                                           ssh_user |-> user.value,
                                           ssh_port |-> port.value,
                                           ssh_key_option |-> key.value[1],
                                           ssh_key_path |-> key.value[2]],
                                          key.logged, key.rest)

\* str(ssh_port) as the format string renders it.
RECURSIVE str(_)
str(n) ==
    IF n < 0 THEN <<"-">> \o str(0 - n)
    ELSE IF n < 10 THEN <<DigitChars[n + 1]>>
    ELSE str(n \div 10) \o <<DigitChars[(n % 10) + 1]>>

\* str.replace("\n\n", "\n")
RECURSIVE replace_double_newline(_)
replace_double_newline(text) ==
    IF Len(text) < 2 THEN text
    ELSE IF text[1] = "\n" /\ text[2] = "\n"
         THEN <<"\n">> \o replace_double_newline(Tail(Tail(text)))
         ELSE <<text[1]>> \o replace_double_newline(Tail(text))

\* The local scripts write this text.
DEFAULT_INVENTORY ==
    <<"[localhost]", "\n", "localhost", " ", "ansible_connection=local", "\n">>

\* DEFAULT_INVENTORY_TEMPLATE.format(...) of the remote scripts.
DEFAULT_INVENTORY_TEMPLATE(server_hostname, server_ip, ssh_user, ssh_port, ssh_key_option) ==
    <<"[remote_servers]", "\n">> \o server_hostname
        \o <<" ", "ansible_host=">> \o server_ip
        \o <<" ", "ansible_user=">> \o ssh_user
        \o <<" ", "ansible_port=">> \o str(ssh_port)
        \o <<" ">> \o ssh_key_option \o <<"\n">>

create_inventory_file_key_path(details) ==
    replace_double_newline(
        DEFAULT_INVENTORY_TEMPLATE(
            <<"remote-server-">>
                \o replace(replace(details.server_ip, ".", <<"-">>), ":", <<"-">>),
            details.server_ip, details.ssh_user, details.ssh_port,
            <<"ansible_ssh_private_key_file=", "'">> \o details.ssh_key_path \o <<"'">>))

create_inventory_file(details) ==
    replace_double_newline(
        DEFAULT_INVENTORY_TEMPLATE(
            <<"remote-server-">>
                \o replace(replace(details.server_ip, ".", <<"-">>), ":", <<"-">>),
            details.server_ip, details.ssh_user, details.ssh_port,
            details.ssh_key_option))

\* Step 3 of the remote scripts: prompt_for_server_details reads the typed
\* lines; it exits on an empty user name and when the key file is missing and
\* the user does not go on. input() waits while no line has been typed.
PromptForServerDetails ==
    /\ phase = "server_details"
    /\ LET result == prompt_for_server_details(typed)
       IN /\ result.outcome # "blocked"
          /\ typed' = result.rest
          /\ logged' = result.logged
          /\ IF result.outcome = "exit"
             THEN /\ exit_code' = 1
                  /\ phase' = "exit"
                  /\ UNCHANGED server_details
             ELSE /\ server_details' = result.value
                  /\ phase' = "menu"
                  /\ UNCHANGED exit_code
    /\ on_path' = {}
    /\ commands_run' = <<>>
    /\ last' = "main"
    /\ UNCHANGED <<inventory_written, playbook_runs, ansible_command,
                   inventory_content>>
    /\ UNCHANGED menuVars
    /\ UNCHANGED generateVars

CreateInventory_after_exit ==
    /\ phase = "menu"
    /\ pc \in {"returned", "exited"}
    /\ IF selected_role_names = <<>>
       THEN /\ Fail("ERROR: No roles selected. Exiting.")
            /\ UNCHANGED <<inventory_written, inventory_content>>
       ELSE /\ logged' = <<"SUCCESS: Inventory file created.">>
            /\ inventory_written' = TRUE
            /\ inventory_content' =
                  IF IsRemote THEN create_inventory_file(server_details)
                  ELSE DEFAULT_INVENTORY
            /\ phase' = "playbook"
            /\ UNCHANGED exit_code
    /\ on_path' = {}
    /\ commands_run' = <<>>
    /\ last' = "main"
    /\ UNCHANGED <<playbook_runs, ansible_command, typed, server_details>>
    /\ UNCHANGED menuVars
    /\ UNCHANGED generateVars

\* display_menu has returned: main refuses an empty list, else writes the
\* inventory file.
CreateInventory ==
    /\ phase = "menu"
    /\ pc = "returned"
    /\ IF selected_role_names = <<>>
       THEN /\ Fail("ERROR: No roles selected. Exiting.")
            /\ UNCHANGED <<inventory_written, inventory_content>>
       ELSE /\ logged' = <<"SUCCESS: Inventory file created.">>
            /\ inventory_written' = TRUE
            /\ inventory_content' =
                  IF IsRemote THEN create_inventory_file(server_details)
                  ELSE DEFAULT_INVENTORY
            /\ phase' = "playbook"
            /\ UNCHANGED exit_code
    /\ on_path' = {}
    /\ commands_run' = <<>>
    /\ last' = "main"
    /\ UNCHANGED <<playbook_runs, ansible_command, typed, server_details>>
    /\ UNCHANGED menuVars
    /\ UNCHANGED generateVars

\* Text is a sequence of pieces: a role identifier (it holds no blank, comma
\* or quote) is one piece, every other character is a piece of its own.
\* f'"{role}"'
quoted(role) == <<"\"", role, "\"">>

\* sep.join(items)
RECURSIVE join(_, _)
join(sep, items) ==
    IF items = <<>> THEN <<>>
    ELSE IF Len(items) = 1 THEN items[1]
    ELSE items[1] \o sep \o join(sep, Tail(items))

tags_argument(selected_roles) ==
    IF selected_roles = <<>> THEN <<>>
    ELSE <<"--tags", " ">>
         \o join(<<",">>, [i \in 1 .. Len(selected_roles) |-> quoted(selected_roles[i])])

\* str.split(): the runs of non-blank pieces.
RECURSIVE split_whitespace_from(_, _)
split_whitespace_from(s, acc) ==
    IF s = <<>> THEN (IF acc = <<>> THEN <<>> ELSE <<acc>>)
    ELSE IF Head(s) = " "
         THEN (IF acc = <<>> THEN <<>> ELSE <<acc>>) \o split_whitespace_from(Tail(s), <<>>)
         ELSE split_whitespace_from(Tail(s), Append(acc, Head(s)))

split_whitespace(s) == split_whitespace_from(s, <<>>)

\* The argv main builds: one sequence of pieces per element.
build_ansible_command(selected_roles) ==
    << <<"ansible-playbook">>, <<"-i">>, <<"INVENTORY_FILE">>,
       <<IF IsArrow THEN "site.yml" ELSE "PLAYBOOK_FILE">> >>
    \o (IF tags_argument(selected_roles) # <<>>
        THEN split_whitespace(tags_argument(selected_roles)) ELSE <<>>)
    \o (IF IsRemote THEN << <<"--ask-become-pass">>, <<"--ask-pass">> >>
        ELSE << <<"--ask-become-pass">> >>)

RunPlaybook_retry ==
    /\ phase = "playbook"
    /\ ansible_command' = build_ansible_command(selected_role_names)
    /\ playbook_runs' = playbook_runs + 1
    /\ \E result \in Results :
        /\ commands_run' = << Ran(ansible_command', result) >>
        /\ IF ~run_command(result)
           THEN /\ logged' = <<"ERROR: Ansible playbook execution failed.">>
                /\ phase' = "playbook"
                /\ UNCHANGED exit_code
           ELSE /\ logged' = <<"SUCCESS: Ansible playbook executed successfully.">>
                /\ phase' = "done"
                /\ UNCHANGED exit_code
    /\ on_path' = {}
    /\ last' = "main"
    /\ UNCHANGED <<inventory_written, typed, server_details, inventory_content>>
    /\ UNCHANGED menuVars
    /\ UNCHANGED generateVars

\* The last step: build the command, run it once, report.
RunPlaybook ==
    /\ phase = "playbook"
    /\ ansible_command' = build_ansible_command(selected_role_names)
    /\ playbook_runs' = playbook_runs + 1
    /\ \E result \in Results :
        /\ commands_run' = << Ran(ansible_command', result) >>
        /\ IF ~run_command(result)
           THEN Fail("ERROR: Ansible playbook execution failed.")
           ELSE /\ logged' = <<"SUCCESS: Ansible playbook executed successfully.">>
                /\ phase' = "done"
                /\ UNCHANGED exit_code
    /\ on_path' = {}
    /\ last' = "main"
    /\ UNCHANGED <<inventory_written, typed, server_details, inventory_content>>
    /\ UNCHANGED menuVars
    /\ UNCHANGED generateVars

NextMain ==
    \/ CheckAnsible
    \/ Collections
    \/ PromptForServerDetails
    \/ CreateInventory
    \/ RunPlaybook

NextArrow ==
    \/ EnterArrowMenu
    \/ Navigate
    \/ EnterRejected
    \/ EnterConfirmed
    \/ QuitKey
    \/ ToggleRole
    \/ ToggleSpecial
    \/ OtherKey
    \/ ReadError

NextNumbered ==
    \/ EnterNumberedMenu
    \/ NumberedQuit
    \/ NumberedShortcut
    \/ NumberedList
    \/ NumberedConfirmYes
    \/ NumberedConfirmNo

Next == NextMain \/ NextArrow \/ NextNumbered

\* Lines typed at the prompts of prompt_for_server_details.
HostLine == <<"h">>

UserLine == <<"u">>

\* The user accepts the default port and gives no key; or gives no user
\* name; or names a key file that is missing and does not go on.
AddressLine == <<"1", "0", ".", "0", ".", "0", ".", "1">>

UsualAnswers ==
    { <<HostLine, UserLine, <<>>, <<>>>>,
      <<AddressLine, <<>>>>,
      <<HostLine, UserLine, <<>>, <<"m">>, <<"n">>>> }

Init == Start(Scripts, UsualAnswers)

\* The two arrow-key scripts on their own.
InitArrow == Init /\ IsArrow

SpecArrow == InitArrow /\ [][NextMain \/ NextArrow]_vars

Spec == Init /\ [][Next]_vars

\* The numbered remote script with a user who may type anything of the
\* following at the prompts of prompt_for_server_details.
HostTries ==
    { <<HostLine>>, <<<<>>, HostLine>>, <<<<"a", " ", "b">>, HostLine>> }

UserTries == { <<UserLine>>, <<<<>>>> }

PortLines ==
    { <<>>, <<"0">>, <<"1">>, <<" ", "2", "2">>, <<"6", "5", "5", "3", "5">>,
      <<"6", "5", "5", "3", "6">>, <<"-", "1">>, <<"x">> }

PortTries == UNION { [1 .. n -> PortLines] : n \in 1 .. MaxTries }

GoOnLines == { <<"y">>, <<"Y">>, <<"y", "e", "s">>, <<"n">>, <<>>, <<" ", "y">> }

KeyTries ==
    { <<<<>>>>, <<<<"k">>>> } \cup { <<<<"m">>, answer>> : answer \in GoOnLines }

\* The lines of a sequence that prompt_for_server_details gets to read.
Read(lines) ==
    SubSeq(lines, 1, Len(lines) - Len(prompt_for_server_details(lines).rest))

ServerAnswers ==
    { Read(host \o user \o port \o key) :
        host \in HostTries, user \in UserTries, port \in PortTries, key \in KeyTries }

InitServer ==
    /\ Start({"numbered_remote"},
             { lines \in ServerAnswers :
                 prompt_for_server_details(lines).outcome # "blocked" })
    /\ os_name = "posix"

SpecServer == InitServer /\ [][NextMain \/ NextNumbered]_vars

(***************************************************************************)
(* files/cloud-init/generate.py                                            *)
(***************************************************************************)
\* The keys of variants, and the fourth choice.
minimal == <<"m", "i", "n", "i", "m", "a", "l">>

dev == <<"d", "e", "v">>

full == <<"f", "u", "l", "l">>

custom == <<"c", "u", "s", "t", "o", "m">>

variants == {minimal, dev, full}

\* Lines typed at "Enter choice (minimal/dev/full/custom): ".
ChoiceLines ==
    { minimal, dev, full, custom, <<" ", "D", "e", "v", " ">>, <<>>,
      <<"m", "i", "n", "i">> }

\* Lines typed at the four prompts of the custom choice.
CustomAnswers ==
    [ enable_gui : { <<"y">>, <<"n">> },
      enable_nix_gui : { <<"Y">>, <<>> },
      dev_envs : { <<"a", "l", "l">>, <<"g", "o">>, <<"g", "o", ",", "j", "s">> },
      harden_level : { <<>>, <<"f", "u", "l", "l">> } ]

\* The lines the user types in one run: the choice and, after the custom
\* choice, the four answers.
GenerateAnswers ==
    { <<line>> : line \in { l \in ChoiceLines : lower(strip(l)) # custom } }
    \cup { <<line, a.enable_gui, a.enable_nix_gui, a.dev_envs, a.harden_level>> :
              line \in { l \in ChoiceLines : lower(strip(l)) = custom },
              a \in CustomAnswers }

\* The four input() calls of the custom choice, in their order.
custom_answers(lines) ==
    [ enable_gui |-> lines[1],
      enable_nix_gui |-> lines[2],
      dev_envs |-> lines[3],
      harden_level |-> lines[4] ]

\* prompt_for_variant as it would be if the choice were not lower-cased.
prompt_for_variant_no_lower(line, answers) ==
    LET typed_choice == strip(line)
        invalid == typed_choice \notin variants /\ typed_choice # custom
        choice == IF invalid THEN minimal ELSE typed_choice
    IN [ logged |-> IF invalid
                    THEN <<"ERROR: Invalid choice. Defaulting to minimal.">>
                    ELSE <<>>,
         value |->
            IF choice = custom
            THEN [ variant |-> custom,
                   enable_gui |-> startswith_y(lower(strip(answers.enable_gui))),
                   enable_nix_gui |-> startswith_y(lower(strip(answers.enable_nix_gui))),
                   dev_envs |->
                      IF strip(answers.dev_envs) # <<"a", "l", "l">>
                      THEN split(strip(answers.dev_envs))
                      ELSE << <<"p", "y", "t", "h", "o", "n">>, <<"j", "s">>,
                              <<"g", "o">>, <<"l", "u", "a">> >>,
                   harden_level |->
                      IF strip(answers.harden_level) # <<>>
                      THEN strip(answers.harden_level)
                      ELSE <<"s", "t", "a", "n", "d", "a", "r", "d">> ]
            ELSE [ variant |-> choice ] ]

\* The returned dictionary and what was logged on the way.
prompt_for_variant(line, answers) ==
    LET typed_choice == lower(strip(line))
        invalid == typed_choice \notin variants /\ typed_choice # custom
        choice == IF invalid THEN minimal ELSE typed_choice
    IN [ logged |-> IF invalid
                    THEN <<"ERROR: Invalid choice. Defaulting to minimal.">>
                    ELSE <<>>,
         value |->
            IF choice = custom
            THEN [ variant |-> custom,
                   enable_gui |-> startswith_y(lower(strip(answers.enable_gui))),
                   enable_nix_gui |-> startswith_y(lower(strip(answers.enable_nix_gui))),
                   dev_envs |->
                      IF strip(answers.dev_envs) # <<"a", "l", "l">>
                      THEN split(strip(answers.dev_envs))
                      ELSE << <<"p", "y", "t", "h", "o", "n">>, <<"j", "s">>,
                              <<"g", "o">>, <<"l", "u", "a">> >>,
                   harden_level |->
                      IF strip(answers.harden_level) # <<>>
                      THEN strip(answers.harden_level)
                      ELSE <<"s", "t", "a", "n", "d", "a", "r", "d">> ]
            ELSE [ variant |-> choice ] ]

\* f"files/cloud-init/cloud-config-{variant}"
output_base(variant) == <<"files/cloud-init/cloud-config-">> \o variant

\* str(bool) as the f-string renders it.
str_bool(b) == IF b THEN <<"True">> ELSE <<"False">>

\* The lines main writes to the temporary vars file of the custom choice.
custom_vars(chosen) ==
    <<"---", "\n">>
        \o <<"enable_gui: ">> \o str_bool(chosen.enable_gui) \o <<"\n">>
        \o <<"enable_nix_gui: ">> \o str_bool(chosen.enable_nix_gui) \o <<"\n">>
        \o <<"dev_envs: ['">> \o join(<<",">>, chosen.dev_envs) \o <<"']", "\n">>
        \o <<"harden_level: ">> \o chosen.harden_level \o <<"\n">>

\* The command of run_ansible_generate.
generate_command(extra_vars_file, output_path) ==
    << <<"ansible-playbook">>, <<"-i">>, <<"localhost,">>, <<"site.yml">>,
       <<"--tags">>, <<"cloud-init">>, <<"--connection">>, <<"local">>,
       <<"--batch">>, <<"--extra-vars">>,
       <<"cloud_init_path=">> \o output_path \o <<" ", "@">> \o extra_vars_file >>

\* What the steps of generate.py leave alone.
GenerateFrame ==
    /\ last' = "main"
    /\ UNCHANGED menuVars
    /\ UNCHANGED <<inventory_written, playbook_runs, ansible_command,
                   server_details, inventory_content>>

\* main: without ansible-playbook the script exits at once.
GenerateCheckAnsible ==
    /\ script = "generate"
    /\ phase = "ansible"
    /\ \E present \in SUBSET {"ansible-playbook"} :
        /\ on_path' = present
        /\ IF "ansible-playbook" \notin present
           THEN /\ logged' = <<"ERROR: Ansible not found. Install Ansible first.">>
                /\ exit_code' = 1
                /\ phase' = "exit"
           ELSE /\ logged' = <<>>
                /\ phase' = "variant"
                /\ UNCHANGED exit_code
    /\ commands_run' = <<>>
    /\ UNCHANGED <<typed, generateVars>>
    /\ GenerateFrame

\* prompt_for_variant reads the typed choice and, after the custom choice,
\* four more lines. input() waits while the line has not been typed.
PromptForVariant ==
    /\ script = "generate"
    /\ phase = "variant"
    /\ typed # <<>>
    /\ LET result == prompt_for_variant(Head(typed), custom_answers(Tail(typed)))
           read == IF result.value.variant = custom THEN 5 ELSE 1
       IN /\ Len(typed) >= read
          /\ selection' = result.value
          /\ logged' = result.logged
          /\ typed' = SubSeq(typed, read + 1, Len(typed))
    /\ phase' = "files"
    /\ on_path' = {}
    /\ commands_run' = <<>>
    /\ UNCHANGED <<exit_code, invocation, temp_vars, generated>>
    /\ GenerateFrame

\* main: the vars file and the output path of the variant; the custom choice
\* gets a temporary vars file written.
ChooseFiles ==
    /\ script = "generate"
    /\ phase = "files"
    /\ IF selection.variant \in variants
       THEN /\ invocation' =
                 [ vars_file |-> <<"files/cloud-init/">> \o selection.variant
                                    \o <<".yml">>,
                   output_path |-> output_base(selection.variant) \o <<".yaml">> ]
            /\ UNCHANGED temp_vars
       ELSE /\ invocation' =
                 [ vars_file |-> output_base(selection.variant)
                                    \o <<"-custom-vars.yml">>,
                   output_path |-> output_base(selection.variant)
                                    \o <<"-custom.yaml">> ]
            /\ temp_vars' = custom_vars(selection)
    /\ phase' = "generate"
    /\ logged' = <<>>
    /\ on_path' = {}
    /\ commands_run' = <<>>
    /\ UNCHANGED <<exit_code, selection, generated, typed>>
    /\ GenerateFrame

\* run_ansible_generate: CalledProcessError is caught and gives False; a
\* FileNotFoundError of subprocess.run is not caught and ends the script.
RunAnsibleGenerate ==
    /\ script = "generate"
    /\ phase = "generate"
    /\ \E result \in Results :
        /\ generated' = result
        /\ commands_run' =
              << Ran(generate_command(invocation.vars_file, invocation.output_path),
                     result) >>
        /\ CASE result = "returned-0" ->
                  /\ logged' = <<"SUCCESS: Generated.">>
                  /\ phase' = "finish"
                  /\ UNCHANGED exit_code
             [] result = "returned-nonzero" ->
                  /\ logged' = <<"ERROR: Failed to generate.">>
                  /\ phase' = "finish"
                  /\ UNCHANGED exit_code
             [] result = "not-found" ->
                  /\ logged' = <<"Traceback: FileNotFoundError">>
                  /\ phase' = "exit"
                  /\ exit_code' = 1
    /\ on_path' = {}
    /\ UNCHANGED <<selection, invocation, temp_vars, typed>>
    /\ GenerateFrame

\* FinishGenerate as it would be if the cleanup were skipped after a failed
\* generation.
FinishGenerate_keeps_on_failure ==
    /\ script = "generate"
    /\ phase = "finish"
    /\ IF selection.variant = custom /\ generated = "returned-0"
       THEN temp_vars' = "absent"
       ELSE UNCHANGED temp_vars
    /\ logged' = <<"SUCCESS: Cloud-init config ready.">>
    /\ phase' = "done"
    /\ on_path' = {}
    /\ commands_run' = <<>>
    /\ UNCHANGED <<exit_code, selection, invocation, generated, typed>>
    /\ GenerateFrame

\* main after run_ansible_generate, whose return value it does not look at:
\* os.remove(temp_vars) for the custom choice, then the final message.
FinishGenerate ==
    /\ script = "generate"
    /\ phase = "finish"
    /\ IF selection.variant = custom
       THEN temp_vars' = "absent"
       ELSE UNCHANGED temp_vars
    /\ logged' = <<"SUCCESS: Cloud-init config ready.">>
    /\ phase' = "done"
    /\ on_path' = {}
    /\ commands_run' = <<>>
    /\ UNCHANGED <<exit_code, selection, invocation, generated, typed>>
    /\ GenerateFrame

NextGenerate ==
    \/ GenerateCheckAnsible
    \/ PromptForVariant
    \/ ChooseFiles
    \/ RunAnsibleGenerate
    \/ FinishGenerate

InitGenerate == Start({"generate"}, GenerateAnswers)

SpecGenerate == InitGenerate /\ [][NextGenerate]_vars

(***************************************************************************)
(* Vocabulary of the properties                                            *)
(***************************************************************************)
Running == pc \in {"menu", "confirm"}

Confirmed == pc = "returned"

Cancelled == pc = "exited" /\ exit_code = 0

\* Indices of the roles a meta-selection stands for.
Constituents(k) == { Index(r) : r \in Range(special_options(k)) }

\* The meta-selection entry under the cursor (the cursor is past the roles).
MetaAtCursor == special_options_order[current_index - Len(AVAILABLE_ROLES) + 1]

LastEntry == Len(AVAILABLE_ROLES) + Len(special_options_order) - 1

ToggledSpecial(l) == l \in {"special_select", "special_deselect"}

OddToggled == { i \in RoleIdx : toggleCount[i] % 2 = 1 }

AllRow == screen[Len(AVAILABLE_ROLES) + 1]

FullRow == screen[Len(AVAILABLE_ROLES) + 2]

(***************************************************************************)
(* Properties of the arrow-key display_menu                                *)
(***************************************************************************)
\* C1: as long as only role entries have been toggled since the session
\* started with the empty selection, the selected set is exactly the set of
\* roles toggled an odd number of times.
C1_OddToggles ==
    (IsArrow /\ pc # "start" /\ OnlyRolesToggled) => selected_indices = OddToggled

\* One role toggled twice and another toggled once, no meta-selection touched.
C1_Witness ==
    /\ IsArrow
    /\ OnlyRolesToggled
    /\ last = "toggle_role"
    /\ \E i, j \in RoleIdx : toggleCount[i] = 2 /\ toggleCount[j] = 1

\* C2: a Toggle on a meta-selection entry removes the constituents when all
\* of them are selected and otherwise adds them; roles outside the
\* constituent set keep their status.
C2_MetaToggle ==
    [][ (IsArrow /\ ToggledSpecial(last')) =>
          LET C == Constituents(MetaAtCursor)
          IN /\ IF C \subseteq selected_indices
                THEN selected_indices' = selected_indices \ C
                ELSE selected_indices' = selected_indices \cup C
             /\ \A i \in RoleIdx \ C :
                   (i \in selected_indices') <=> (i \in selected_indices) ]_vars

\* 'all' has just been deselected while a role outside it stays selected.
C2_Witness ==
    /\ IsArrow
    /\ last = "special_deselect"
    /\ current_index = Len(AVAILABLE_ROLES)
    /\ selected_indices # {}

\* C3 as stated: toggling a meta-selection entry whose constituents are not
\* all selected leaves the selection equal to exactly the constituent set.
C3_ExactlyConstituents ==
    [][ (IsArrow /\ last' = "special_select") =>
          selected_indices' = Constituents(MetaAtCursor) ]_vars

\* C3 amended: such a toggle leaves every constituent selected and every
\* other role as it was, so the selection is the constituent set exactly
\* when no role outside it was selected; toggling the same entry again with
\* no event in between removes exactly the constituent set.
C3_SelectThenDeselect ==
    [][ IsArrow =>
          LET C == Constituents(MetaAtCursor)
          IN /\ last' = "special_select" =>
                  /\ selected_indices' = selected_indices \cup C
                  /\ (selected_indices \subseteq C) => selected_indices' = C
             /\ (last = "special_select" /\ ToggledSpecial(last')) =>
                  /\ last' = "special_deselect"
                  /\ selected_indices' = selected_indices \ C
                  /\ selected_indices' = prev_selected \ C
                  /\ (prev_selected \subseteq C) => selected_indices' = {} ]_vars

\* 'full' has just been deselected from the full selection, back to empty.
C3_Witness ==
    /\ IsArrow
    /\ last = "special_deselect"
    /\ current_index = LastEntry
    /\ prev_selected = Constituents("full")
    /\ special_history["full"] = "deselect"
    /\ selected_indices = {}

\* C4: what a Toggle on a meta-selection entry does is decided by the
\* selected set alone, whatever the entry's earlier toggles did: after a
\* select, once a constituent has been deselected, the next toggle selects
\* again; and constituents that are all selected are deselected even if the
\* entry's latest toggle was a deselect or it was never toggled.
C4_NoStickyBit ==
    [][ (IsArrow /\ ToggledSpecial(last')) =>
          LET C == Constituents(MetaAtCursor)
          IN /\ (~(C \subseteq selected_indices)) =>
                  (last' = "special_select" /\ C \subseteq selected_indices')
             /\ (C \subseteq selected_indices) =>
                  (last' = "special_deselect" /\ selected_indices' \cap C = {}) ]_vars

\* 'all' was selected by a toggle, lost a constituent, and was toggled again.
C4_Witness ==
    /\ IsArrow
    /\ last = "special_select"
    /\ special_history["all"] = "reselect"
    /\ Constituents("all") \subseteq selected_indices

\* C5: the rendered checklist matches the state.
C5_ScreenMatches ==
    (IsArrow /\ pc # "start") =>
        /\ Len(screen) = LastEntry + 1
        /\ \A i \in 1 .. Len(screen) :
              /\ screen[i].cursor <=> (i - 1 = current_index)
              /\ i <= Len(AVAILABLE_ROLES) =>
                    /\ screen[i].label = AVAILABLE_ROLES[i]
                    /\ screen[i].checked <=> ((i - 1) \in selected_indices)
              /\ i > Len(AVAILABLE_ROLES) =>
                    /\ screen[i].label \in {"all", "full"}
                    /\ screen[i].checked <=>
                          (Constituents(screen[i].label) \subseteq selected_indices)
        /\ Cardinality({ i \in 1 .. Len(screen) : screen[i].cursor }) = 1

\* Only the constituents of 'all' are selected: 'all' checked, 'full' not.
C5_Witness ==
    /\ IsArrow
    /\ pc = "menu"
    /\ selected_indices = Constituents("all")
    /\ AllRow.label = "all" /\ AllRow.checked
    /\ FullRow.label = "full" /\ ~FullRow.checked

\* C6: the session starts at cursor 0 with nothing selected, the cursor stays
\* within the entries, and navigation wraps around at both edges.
C6_CursorWraps ==
    /\ [](IsArrow =>
            /\ current_index \in 0 .. LastEntry
            /\ last = "start" => (current_index = 0 /\ selected_indices = {}))
    /\ [][ IsArrow =>
            /\ last' = "up" =>
                 current_index' = IF current_index = 0 THEN LastEntry
                                  ELSE current_index - 1
            /\ last' = "down" =>
                 current_index' = IF current_index = LastEntry THEN 0
                                  ELSE current_index + 1 ]_vars

\* Navigate-Up has just been taken from entry 0.
C6_Witness ==
    /\ IsArrow
    /\ last = "up"
    /\ current_index = LastEntry

\* C7: navigation changes only the cursor, a Toggle changes only the
\* selected set, and neither leaves the Running state.
C7_Frame ==
    [][ IsArrow =>
          /\ last' \in {"up", "down"} =>
                /\ selected_indices' = selected_indices
                /\ selected_role_names' = selected_role_names
                /\ pc = "menu" /\ pc' = "menu"
          /\ (last' = "toggle_role" \/ ToggledSpecial(last')) =>
                /\ current_index' = current_index
                /\ selected_role_names' = selected_role_names
                /\ pc = "menu" /\ pc' = "menu" ]_vars

\* A role entry other than the first has just been toggled.
C7_Witness ==
    /\ IsArrow
    /\ last = "toggle_role"
    /\ current_index > 0
    /\ selected_indices # prev_selected
    /\ pc = "menu"

\* C8: Confirm with an empty selection is rejected with a warning, changes
\* neither the selection nor the cursor, and the session keeps running; a
\* Confirm is accepted only with a non-empty selection.
C8_EmptyConfirmRejected ==
    /\ [](IsArrow /\ last = "reject" => pc = "menu" /\ logged # <<>>)
    /\ [][ IsArrow =>
            /\ last' = "reject" =>
                 /\ selected_indices = {}
                 /\ selected_indices' = selected_indices
                 /\ current_index' = current_index
            /\ last' = "confirm" => selected_indices # {} ]_vars

\* Confirm was rejected after the cursor had been moved.
C8_Witness ==
    /\ IsArrow
    /\ last = "reject"
    /\ current_index > 0
    /\ pc = "menu"

\* C9: the list returned on confirmation holds exactly the selected roles,
\* each once, in catalog order.
C9_ResultInCatalogOrder ==
    (IsArrow /\ Confirmed) =>
        /\ selected_indices # {}
        /\ Range(selected_role_names) = { AVAILABLE_ROLES[i + 1] : i \in selected_indices }
        /\ Len(selected_role_names) = Cardinality(selected_indices)
        /\ \A a, b \in 1 .. Len(selected_role_names) :
              a < b => Index(selected_role_names[a]) < Index(selected_role_names[b])

\* The roles of 'all' were toggled one by one and confirmed.
C9_Witness ==
    /\ IsArrow
    /\ Confirmed
    /\ OnlyRolesToggled
    /\ selected_indices = Constituents("all")
    /\ selected_role_names = ALL_ROLES_SELECTION

(***************************************************************************)
(* Properties of all four menus                                            *)
(***************************************************************************)
\* C10: in every menu, the Quit input 'q' received while the session is
\* running ends the session as Cancelled at once, and no list is returned.
C10_QuitCancels ==
    [][ (Running /\ quit_input') =>
          (Cancelled' /\ ~Confirmed' /\ last' = "quit") ]_vars

(***************************************************************************)
(* Properties of the terminal, of main and of the numbered display_menu    *)
(***************************************************************************)
\* C11: on POSIX, once the session of the arrow-key menu has ended, by a
\* confirmation, by Quit or by an exception raised inside the loop, the
\* terminal is in the mode it had before the session (every run starts in
\* the cooked mode).
C11_TerminalRestored ==
    (IsArrow /\ os_name = "posix" /\ pc \in {"returned", "exited"})
        => (tty_mode = "cooked" /\ tty_mode = old_settings)

\* The session ended by an exception, after the terminal had been put in
\* raw mode more than once.
C11_Witness ==
    /\ IsArrow /\ os_name = "posix"
    /\ pc = "exited" /\ last = "exception"
    /\ selected_indices # {}
    /\ tty_mode = "cooked"

\* C12: when the user quits the role menu, the inventory file has not been
\* written and ansible-playbook has not been run, the process ends with
\* status 0, and nothing runs after an exit; the exits main and the
\* functions it calls use for failures, and an uncaught exception, end the
\* process with status 1.
C12_QuitRunsNothing ==
    /\ [](last = "quit" => /\ pc = "exited" /\ exit_code = 0
                           /\ ~inventory_written /\ playbook_runs = 0
                           /\ ansible_command = <<>>)
    /\ []((phase = "exit" \/ last = "exception") => exit_code = 1)
    /\ [][pc # "exited" /\ phase # "exit"]_vars

\* A numbered menu is quit after roles had been entered and the
\* confirmation declined.
C12_Witness ==
    /\ IsNumbered
    /\ last = "quit" /\ exit_code = 0
    /\ selected_role_names # <<>>
    /\ ~inventory_written

\* C13: in the numbered menus, as long as only role numbers have been
\* entered since the session started, a role is selected exactly when its
\* number has been entered an odd number of times.
C13_NumberedOddEntries ==
    (IsNumbered /\ OnlyRolesToggled) => Sel = OddToggled

\* C14: in the numbered menus, entering 'a' (or 'f') alone acts as a Toggle
\* of the meta-selection 'all' (or 'full'): when all its constituents are
\* selected they are all removed, otherwise they are all selected, and the
\* roles outside its constituent set keep their status.
C14_ShortcutIsToggle ==
    [][ (IsNumbered /\ last' \in {"num_all", "num_full"}) =>
            LET constituents == Constituents(IF last' = "num_all" THEN "all" ELSE "full")
            IN Sel' = IF constituents \subseteq Sel
                      THEN Sel \ constituents
                      ELSE Sel \cup constituents ]_vars

(***************************************************************************)
(* Properties of the key handling of the arrow-key display_menu            *)
(***************************************************************************)
\* C15: on POSIX, an iteration that begins with the first byte of an arrow
\* key press is one Navigate event: the cursor moves one entry up or down
\* (with wrap-around), the selection is unchanged, the session goes on, and
\* the iteration waits for no further key press, so it consumes no byte of
\* a later one.
C15_ArrowKeyIsOneNavigate ==
    [][ (IsArrow /\ os_name = "posix" /\ pc = "menu" /\ first_key' \in {"Up", "Down"}) =>
            /\ keys_read' = 1
            /\ current_index' =
                  IF first_key' = "Up"
                  THEN (IF current_index = 0 THEN LastEntry ELSE current_index - 1)
                  ELSE (IF current_index = LastEntry THEN 0 ELSE current_index + 1)
            /\ selected_indices' = selected_indices
            /\ pc' = "menu" ]_vars

\* C16: on POSIX, an iteration that begins with the Enter key, which the
\* terminal in raw mode delivers as a carriage return, while at least one
\* role is selected, confirms the selection: the session is Confirmed.
C16_EnterKeyConfirms ==
    [][ (IsArrow /\ os_name = "posix" /\ pc = "menu" /\ selected_indices # {}
            /\ first_key' = "Enter") =>
            (pc' = "returned" /\ last' = "confirm") ]_vars

(***************************************************************************)
(* Properties of main                                                      *)
(***************************************************************************)
\* C17: in every deployment script the inventory file is written only after
\* a non-empty selection has been confirmed and before any run of
\* ansible-playbook, ansible-playbook is run only after the inventory has
\* been written, and it is run at most once.
C17_MainOrder ==
    /\ [](inventory_written => (Confirmed /\ selected_role_names # <<>>))
    /\ [](playbook_runs >= 1 => (inventory_written /\ ansible_command # <<>>))
    /\ [](playbook_runs <= 1)
    /\ [][ inventory_written' # inventory_written =>
              (Confirmed /\ selected_role_names # <<>> /\ playbook_runs = 0) ]_vars
    /\ [][ playbook_runs' # playbook_runs =>
              (inventory_written /\ playbook_runs = 0) ]_vars

\* The playbook has run, and failed, for a confirmed selection of two or
\* more roles.
C17_Witness ==
    /\ playbook_runs = 1
    /\ phase = "exit" /\ exit_code = 1
    /\ inventory_written
    /\ Len(selected_role_names) >= 2

\* C18: once main has built the command, the argv element that follows
\* "--tags", split on commas, is exactly the sequence of the role
\* identifiers display_menu returned, in the returned order, each part
\* being the identifier with no added character.
C18_TagsAreRoleNames ==
    ansible_command # <<>> =>
        \E n \in 1 .. Len(ansible_command) - 1 :
            /\ ansible_command[n] = <<"--tags">>
            /\ split(ansible_command[n + 1])
                  = [i \in 1 .. Len(selected_role_names) |-> <<selected_role_names[i]>>]

\* The abstract event a branch of the key handling stands for.
EventOf(l) ==
    CASE l = "up"   -> "Navigate-Up"
      [] l = "down" -> "Navigate-Down"
      [] l \in {"toggle_role", "special_select", "special_deselect"} -> "Toggle"
      [] l \in {"confirm", "reject"} -> "Confirm-request"
      [] l = "quit" -> "Quit"
      [] OTHER      -> "none"

\* Cursor, selected set and outcome an abstract event leads to; the platform
\* does not occur in it.
EffectOf(event, cur, sel) ==
    CASE event = "Navigate-Up" ->
            <<IF cur = 0 THEN LastEntry ELSE cur - 1, sel, "menu">>
      [] event = "Navigate-Down" ->
            <<IF cur = LastEntry THEN 0 ELSE cur + 1, sel, "menu">>
      [] event = "Toggle" ->
            <<cur,
              IF cur < Len(AVAILABLE_ROLES)
              THEN (IF cur \in sel THEN sel \ {cur} ELSE sel \cup {cur})
              ELSE LET constituents ==
                         Constituents(special_options_order[cur - Len(AVAILABLE_ROLES) + 1])
                   IN IF constituents \subseteq sel
                      THEN sel \ constituents ELSE sel \cup constituents,
              "menu">>
      [] event = "Confirm-request" ->
            <<cur, sel, IF sel = {} THEN "menu" ELSE "returned">>
      [] event = "Quit" ->
            <<cur, sel, "exited">>

\* C19: in each arrow-key script the Windows branch and the POSIX branch
\* implement one transition relation over the abstract events: whichever
\* platform the step is taken on, the cursor, the selected set and the
\* outcome after an event are the same function of the event, the cursor
\* and the selected set before it.
C19_BranchesAgree ==
    [][ (IsArrow /\ pc = "menu" /\ EventOf(last') # "none") =>
            <<current_index', selected_indices', pc'>>
                = EffectOf(EventOf(last'), current_index, selected_indices) ]_vars

\* On POSIX, Navigate-Down has wrapped the cursor from the last entry to the
\* first while roles are selected.
C19_Witness ==
    /\ IsArrow /\ os_name = "posix"
    /\ pc = "menu" /\ last = "down"
    /\ current_index = 0
    /\ selected_indices # {}

\* C20: when the session of an arrow-key menu is confirmed, at most one
\* meta-selection has every role of its constituent set selected.
C20_AtMostOneSpecialFull ==
    (IsArrow /\ Confirmed) =>
        Cardinality({ k \in Range(special_options_order) :
                        Constituents(k) \subseteq selected_indices }) <= 1

\* C21: in the arrow-key menus the selected set only ever holds indices of
\* role entries, a confirmed session returns at least one role name, and so
\* main never takes its "No roles selected" exit.
C21_ArrowNeverReturnsEmpty ==
    IsArrow =>
        /\ selected_indices \subseteq RoleIdx
        /\ Confirmed => selected_role_names # <<>>
        /\ logged # <<"ERROR: No roles selected. Exiting.">>

\* main has gone past its check of the returned list after a session in which
\* a meta-selection was selected and deselected again and one role is left.
C21_Witness ==
    /\ IsArrow /\ Confirmed
    /\ phase = "playbook" /\ inventory_written
    /\ \E k \in DOMAIN special_history : special_history[k] = "deselect"
    /\ Cardinality(selected_indices) = 1

(***************************************************************************)
(* Properties of the numbered display_menu                                 *)
(***************************************************************************)
\* C22: when the numbered menu is confirmed, the returned list holds exactly
\* the selected roles, each once, in the order of AVAILABLE_ROLES.
C22_NumberedCatalogOrder ==
    (IsNumbered /\ Confirmed) =>
        selected_role_names = names_of(sorted(Sel))

\* C23: the numbered menu returns only from the confirmation prompt, on the
\* answer y, with the list it was asked about, and that list is not empty; any
\* other answer leads back to the menu with the list unchanged; an input that
\* leaves the list empty is refused with a warning and the confirmation prompt
\* is not reached; the returned list is never empty.
C23_NumberedConfirmation ==
    /\ [][ (IsNumbered /\ pc # "returned" /\ pc' = "returned") =>
              /\ pc = "confirm" /\ last' = "confirm"
              /\ selected_role_names # <<>>
              /\ selected_role_names' = selected_role_names ]_vars
    /\ [][ (IsNumbered /\ pc = "confirm" /\ last' # "confirm") =>
              /\ pc' = "menu"
              /\ selected_role_names' = selected_role_names ]_vars
    /\ [][ (IsNumbered /\ pc = "menu" /\ pc' # "exited"
                /\ selected_role_names' = <<>>) =>
              /\ pc' = "menu"
              /\ logged' = <<"WARNING: Please select at least one role or 'a'/'f'.">> ]_vars
    /\ []((IsNumbered /\ pc \in {"confirm", "returned"}) =>
              selected_role_names # <<>>)

\* A numbered session has been confirmed with one role in its list.
C23_Witness ==
    /\ IsNumbered /\ Confirmed /\ last = "confirm"
    /\ Len(selected_role_names) = 1

\* C24: while the numbered menu waits for a choice, the row of a
\* meta-selection is shown checked iff all of its constituent roles are
\* selected, and the row of a role is shown checked iff the role is selected.
C24_NumberedRowsMatch ==
    (IsNumbered /\ pc = "menu") =>
        /\ \A i \in RoleIdx :
              screen[i + 1] = Row(FALSE, i \in Sel, AVAILABLE_ROLES[i + 1])
        /\ \A n \in 1 .. Len(special_options_order) :
              screen[num_options + n] =
                  Row(FALSE, Constituents(special_options_order[n]) \subseteq Sel,
                      special_options_order[n])

(***************************************************************************)
(* Properties of main and of the steps before the menu                     *)
(***************************************************************************)
\* C25: when the ansible-playbook command fails (non-zero status, or the
\* command is not found), main logs the failure and exits with status 1 and
\* the success message is not logged; the success message is logged only
\* when the command returned status 0.
C25_PlaybookFailureReported ==
    /\ playbook_runs > 0 =>
          /\ Len(commands_run) = 1
          /\ commands_run[1].command = ansible_command
          /\ commands_run[1].result \in {"returned-nonzero", "not-found"} =>
                /\ logged = <<"ERROR: Ansible playbook execution failed.">>
                /\ phase = "exit"
                /\ exit_code = 1
    /\ "SUCCESS: Ansible playbook executed successfully." \in Range(logged) =>
          /\ playbook_runs > 0
          /\ commands_run[1].result = "returned-0"

\* The playbook command has returned a non-zero status.
C25_Witness ==
    /\ playbook_runs > 0
    /\ commands_run[1].result = "returned-nonzero"
    /\ phase = "exit"

\* C26: install_ansible logs "Ansible installed successfully." and lets main
\* go on only if every package-manager command it ran succeeded.
C26_InstallSuccessMeansInstalled ==
    "SUCCESS: Ansible installed successfully." \in Range(logged) =>
        \A i \in DOMAIN commands_run : commands_run[i].result = "returned-0"

\* The order of preference among the package managers that C27 states.
ManagerPriority == <<"apt-get", "dnf", "pacman", "brew">>

\* The package managers that appear in the commands a step has run.
ManagersUsed(commands) ==
    { m \in Range(ManagerPriority) :
        \E i \in DOMAIN commands : m \in Range(commands[i].command) }

\* C27: when ansible-playbook is not found, install_ansible runs commands of
\* exactly one package manager, the first of apt-get, dnf, pacman, brew that
\* is present; when none of the four is present it runs no command and the
\* process exits with status 1 with no prompt or menu shown.
C27_OneManagerByPriority ==
    [][ (phase = "ansible" /\ "ansible-playbook" \notin on_path') =>
          IF on_path' \cap Range(ManagerPriority) = {}
          THEN /\ commands_run' = <<>>
               /\ phase' = "exit" /\ exit_code' = 1
               /\ pc' = "start" /\ screen' = <<>>
          ELSE /\ commands_run' # <<>>
               /\ \A i \in DOMAIN commands_run' :
                     Cardinality(ManagersUsed(<<commands_run'[i]>>)) = 1
               /\ \E n \in DOMAIN ManagerPriority :
                     /\ ManagersUsed(commands_run') = {ManagerPriority[n]}
                     /\ ManagerPriority[n] \in on_path'
                     /\ \A m \in 1 .. n - 1 : ManagerPriority[m] \notin on_path' ]_vars

\* pacman has been used on a system that has pacman and brew but neither
\* apt-get nor dnf.
C27_Witness ==
    /\ phase = "collections"
    /\ on_path = {"pacman", "brew"}
    /\ ManagersUsed(commands_run) = {"pacman"}

\* The typed lines that are left for the port prompt once the host and the
\* user name have been read.
PortPromptLines ==
    ask_ssh_user(ask_server_ip(typed, <<>>).rest, <<>>).rest

\* The port and the number of warnings C28 expects for the answers given at
\* the port prompt.
RECURSIVE ClaimedPort(_)
ClaimedPort(answers) ==
    IF answers = <<>> THEN [port |-> 0, warned |-> 0]
    ELSE LET answer == strip(Head(answers))
         IN IF answer = <<>> THEN [port |-> 22, warned |-> 0]
            ELSE IF isdigit(answer) /\ int(answer) \in 1 .. 65535
            THEN [port |-> int(answer), warned |-> 0]
            ELSE [port |-> ClaimedPort(Tail(answers)).port,
                  warned |-> ClaimedPort(Tail(answers)).warned + 1]

PortWarnings(messages) ==
    Cardinality({ i \in DOMAIN messages :
                    messages[i] \in {"WARNING: Port must be between 1 and 65535.",
                                     "WARNING: Invalid port number. Please enter a number."} })

\* C28: prompt_for_server_details returns a port in 1..65535: 22 for an empty
\* answer, the integer itself for an integer in the range; every other answer
\* gives one warning and another prompt, and the script does not end at the
\* port prompt.
C28_PortInRange ==
    [][ phase = "server_details" =>
          /\ phase' = "menu" =>
                /\ server_details'.ssh_port \in 1 .. 65535
                /\ server_details'.ssh_port = ClaimedPort(PortPromptLines).port
                /\ PortWarnings(logged') = ClaimedPort(PortPromptLines).warned
          /\ phase' = "exit" =>
                logged'[Len(logged')] \in {"ERROR: SSH Username cannot be empty.",
                                           "ERROR: SSH key file not found."} ]_vars

\* Port 65535 has been returned after an answer that was refused.
C28_Witness ==
    /\ phase = "menu" /\ pc = "start"
    /\ server_details.ssh_port = 65535
    /\ PortWarnings(logged) = 1

\* The typed lines that are left for the key prompt, and whether the prompts
\* get that far.
KeyPromptLines == ask_ssh_port(PortPromptLines, <<>>).rest

KeyPromptReached ==
    ask_ssh_user(ask_server_ip(typed, <<>>).rest, <<>>).outcome = "answered"

KeySetting == "ansible_ssh_private_key_file="

\* C29: prompt_for_server_details returns a non-empty key option iff the user
\* entered a key path that exists; when the entered path does not exist the
\* script exits with status 1 (the user does not go on) or returns an empty
\* key option and an empty key path (the user answers y), and the inventory
\* written for an empty key option holds no private-key setting.
C29_KeyOptionIffKeyExists ==
    /\ [][ (phase = "server_details" /\ KeyPromptReached) =>
             LET entered == strip(Head(KeyPromptLines))
                 missing == entered # <<>> /\ entered \notin ExistingFiles
             IN /\ phase' = "menu" =>
                      (server_details'.ssh_key_option # <<>>
                          <=> (entered # <<>> /\ entered \in ExistingFiles))
                /\ missing =>
                      IF KeyPromptLines[2] # <<>> /\ KeyPromptLines[2][1] \in {"y", "Y"}
                      THEN /\ phase' = "menu"
                           /\ server_details'.ssh_key_option = <<>>
                           /\ server_details'.ssh_key_path = <<>>
                      ELSE /\ phase' = "exit"
                           /\ exit_code' = 1 ]_vars
    /\ []((IsRemote /\ inventory_written /\ server_details.ssh_key_option = <<>>) =>
             KeySetting \notin Range(inventory_content))

\* The user has named a missing key file and gone on without it.
C29_Witness ==
    /\ IsRemote /\ phase = "menu" /\ pc = "start"
    /\ "ERROR: SSH key file not found." \in Range(logged)
    /\ server_details.ssh_key_option = <<>>
    /\ server_details.ssh_key_path = <<>>

(***************************************************************************)
(* Properties of the cloud-init generator                                  *)
(***************************************************************************)
\* C30: the final "Cloud-init config ready" message is logged only when
\* run_ansible_generate succeeded.
C30_ReadyOnlyAfterSuccess ==
    "SUCCESS: Cloud-init config ready." \in Range(logged) =>
        generated = "returned-0"

\* The variant has been chosen (selection is the returned dictionary).
VariantChosen == script = "generate" /\ phase \in {"files", "generate", "finish", "done"}

\* The step in which ansible-playbook is invoked.
InvokesPlaybook ==
    /\ script = "generate"
    /\ phase = "generate"
    /\ commands_run' # <<>>

\* C31: for the custom variant the temporary vars file holds the chosen
\* settings when ansible-playbook is invoked and until the invocation has
\* returned, and is gone once main has finished, after a success and after a
\* non-zero exit status alike; for minimal, dev and full no temporary vars
\* file ever exists.
C31_TempVarsLifetime ==
    /\ [][ (InvokesPlaybook /\ selection.variant = custom)
              => /\ custom_vars(selection) = temp_vars
                 /\ temp_vars' = temp_vars ]_vars
    /\ [](VariantChosen /\ phase = "finish" /\ selection.variant = custom
              => custom_vars(selection) = temp_vars)
    /\ [](VariantChosen /\ phase = "done" /\ selection.variant = custom
              => /\ generated \in {"returned-0", "returned-nonzero"}
                 /\ temp_vars = "absent")
    /\ [](VariantChosen /\ selection.variant \in variants
              => temp_vars = "absent")

\* The custom choice has failed with a non-zero exit status and main has
\* finished: the temporary vars file is gone.
C31_Witness ==
    /\ VariantChosen
    /\ phase = "done"
    /\ selection.variant = custom
    /\ generated = "returned-nonzero"
    /\ temp_vars = "absent"

\* The step in which prompt_for_variant returns.
ReturnsVariant == script = "generate" /\ phase = "variant" /\ phase' = "files"

\* The typed choice after trimming and lower-casing.
TrimmedChoice == lower(strip(Head(typed)))

\* The vars file and the output path main is to use for each variant.
FilesOf(variant) ==
    CASE variant = minimal ->
            [ vars_file |-> <<"files/cloud-init/", "m", "i", "n", "i", "m", "a", "l", ".yml">>,
              output_path |-> <<"files/cloud-init/cloud-config-",
                                "m", "i", "n", "i", "m", "a", "l", ".yaml">> ]
      [] variant = dev ->
            [ vars_file |-> <<"files/cloud-init/", "d", "e", "v", ".yml">>,
              output_path |-> <<"files/cloud-init/cloud-config-", "d", "e", "v", ".yaml">> ]
      [] variant = full ->
            [ vars_file |-> <<"files/cloud-init/", "f", "u", "l", "l", ".yml">>,
              output_path |-> <<"files/cloud-init/cloud-config-",
                                "f", "u", "l", "l", ".yaml">> ]
      [] variant = custom ->
            [ vars_file |-> <<"files/cloud-init/cloud-config-",
                              "c", "u", "s", "t", "o", "m", "-custom-vars.yml">>,
              output_path |-> <<"files/cloud-init/cloud-config-",
                                "c", "u", "s", "t", "o", "m", "-custom.yaml">> ]

\* C32: prompt_for_variant returns the typed choice, trimmed and lower-cased,
\* when that is minimal, dev, full or custom, and otherwise reports the choice
\* as invalid and returns minimal; main then invokes ansible-playbook exactly
\* once, with the vars file and the output path of the returned variant.
C32_VariantThenOneInvocation ==
    /\ [][ ReturnsVariant
              => /\ selection'.variant \in {minimal, dev, full, custom}
                 /\ IF TrimmedChoice \in {minimal, dev, full, custom}
                    THEN /\ selection'.variant = TrimmedChoice
                         /\ logged' = <<>>
                    ELSE /\ selection'.variant = minimal
                         /\ logged' = <<"ERROR: Invalid choice. Defaulting to minimal.">> ]_vars
    /\ [][ InvokesPlaybook
              => /\ generated = "not-run"
                 /\ Len(commands_run') = 1
                 /\ commands_run'[1].command[1] = <<"ansible-playbook">>
                 /\ commands_run'[1].command[11] =
                        <<"cloud_init_path=">> \o FilesOf(selection.variant).output_path
                            \o <<" ", "@">> \o FilesOf(selection.variant).vars_file ]_vars
    /\ [][ (script = "generate" /\ generated' # generated) => InvokesPlaybook ]_vars
    /\ [](VariantChosen /\ phase \in {"finish", "done"} => generated # "not-run")
    /\ [](script = "generate" /\ phase = "exit" /\ selection # <<>>
              => generated # "not-run")

\* prompt_for_variant has just reported an invalid choice and returned minimal
\* in its place.
C32_Witness ==
    /\ VariantChosen
    /\ phase = "files"
    /\ selection.variant = minimal
    /\ logged = <<"ERROR: Invalid choice. Defaulting to minimal.">>
    /\ generated = "not-run"

====
